---- MODULE Spec2Model ----
(***************************************************************************)
(* Model of the Pester native shell (src-tauri/src/lib.rs): the tray menu  *)
(* builder update_tray_menu, the setup closure of run(), the window        *)
(* close-to-hide handler and the tray event router.                        *)
(*                                                                         *)
(* A Rust String is modelled as a sequence of characters; every character  *)
(* is a one-element token whose UTF-8 width is given by len_utf8, so that  *)
(* String::len (a byte count) and byte-index slicing behave as in Rust.    *)
(***************************************************************************)
EXTENDS Integers, Sequences, FiniteSets, TLC

VARIABLES
    pc,           \* "setup" before the setup closure ran, "run", "exited"
    trayExists,   \* app.tray_by_id("main-tray") is Some (tray configuration)
    trayMenu,     \* the menu installed on the tray; <<>> when none is set
    menuHandler,  \* tray.on_menu_event handler registered
    trayHandler,  \* tray.on_tray_icon_event handler registered
    closeHandler, \* window.on_window_event handler registered
    mainWindow,   \* the "main" webview window
    emitted,      \* payloads of the "tray-action" events emitted so far
    ret,          \* what the last update_tray_menu invocation returned
    recent_users, \* argument of the last update_tray_menu that returned Ok
    supplied,     \* identifiers passed to any update_tray_menu call so far
    closeCount,   \* close requests delivered to the main window so far
    unmatched,    \* some menu event so far fell through to the `_ => {}` arm
    emitWindow,   \* the main window as it was when the last event was emitted
    failingCalls, \* the window calls that return Err at present
    host,         \* target OS of the build, monitor size, outer size of the window
    position      \* physical position of the main window

vars == <<pc, trayExists, trayMenu, menuHandler, trayHandler, closeHandler,
          mainWindow, emitted, ret, recent_users, supplied, closeCount,
          unmatched, emitWindow, failingCalls, host, position>>

----------------------------------------------------------------------------
(* Bounds of the model *)

\* longest recent_users list passed to update_tray_menu
MaxContacts == 2
\* most "tray-action" events in one behaviour
MaxEmitted == 1
\* most close requests in one behaviour
MaxCloses == 2
\* most characters after the optional prefix of an identifier of IdPool
MaxIdLen == 14

----------------------------------------------------------------------------
(* Strings *)

\* a two-byte character (U+00E9) and the three-byte ellipsis (U+2026)
EAcute == "U+00E9"
Ellipsis == "U+2026"

Rep(c, n) == [i \in 1..n |-> c]

\* char::len_utf8
len_utf8(c) == IF c = Ellipsis THEN 3 ELSE IF c = EAcute THEN 2 ELSE 1

\* String::len: the length in bytes
RECURSIVE ByteLen(_)
ByteLen(s) == IF s = <<>> THEN 0 ELSE len_utf8(Head(s)) + ByteLen(Tail(s))

\* the number of leading characters of s that end at or before byte n
RECURSIVE CharsWithin(_, _)
CharsWithin(s, n) ==
    IF s = <<>> \/ len_utf8(Head(s)) > n THEN 0
    ELSE 1 + CharsWithin(Tail(s), n - len_utf8(Head(s)))

\* str::is_char_boundary(n)
IsCharBoundary(s, n) == ByteLen(SubSeq(s, 1, CharsWithin(s, n))) = n

\* &s[..n], defined when n is a char boundary of s (the slice panics otherwise)
SliceTo(s, n) == SubSeq(s, 1, CharsWithin(s, n))

\* str::starts_with
StartsWith(s, p) == Len(s) >= Len(p) /\ SubSeq(s, 1, Len(p)) = p

S_open == <<"o", "p", "e", "n">>
S_quit == <<"q", "u", "i", "t">>
S_new_contact == <<"n", "e", "w", "_", "c", "o", "n", "t", "a", "c", "t">>
S_chat_ == <<"c", "h", "a", "t", "_">>
S_chat_colon == <<"c", "h", "a", "t", ":">>
S_OpenPester == <<"O", "p", "e", "n", " ", "P", "e", "s", "t", "e", "r">>
S_NewContact == <<"N", "e", "w", " ", "C", "o", "n", "t", "a", "c", "t", Ellipsis>>
S_Quit == <<"Q", "u", "i", "t">>
S_alice == <<"a", "l", "i", "c", "e">>

----------------------------------------------------------------------------
(* The tray menu builder: update_tray_menu *)

\* the byte count above which a label is truncated, and the cut
LabelMax == 12

MenuItem(id, text) == [kind |-> "item", id |-> id, text |-> text]
Separator == [kind |-> "sep", id |-> <<>>, text |-> <<>>]

OpenItem == MenuItem(S_open, S_OpenPester)
NewContactItem == MenuItem(S_new_contact, S_NewContact)
QuitItem == MenuItem(S_quit, S_Quit)

\* &user[..12] panics when byte 12 is inside a character
LabelPanics(user) == ByteLen(user) > LabelMax /\ ~IsCharBoundary(user, LabelMax)

Label(user) ==
    IF ByteLen(user) > LabelMax
    THEN SliceTo(user, LabelMax) \o <<Ellipsis>>
    ELSE user

ChatId_NoPrefix(user) == user

\* format!("chat_{}", user)
ChatId(user) == S_chat_ \o user

\* One fallible step of the function: Menu::new, the creation of an entry,
\* its append to the local menu, or the final tray.set_menu.
Step(op, item, panics) == [op |-> op, item |-> item, panics |-> panics]

ItemSteps(item) == <<Step("create", item, FALSE), Step("append", item, FALSE)>>

UserSteps(user) ==
    <<Step("create", MenuItem(ChatId(user), Label(user)), LabelPanics(user)),
      Step("append", MenuItem(ChatId(user), Label(user)), FALSE)>>

RECURSIVE ContactSteps(_)
ContactSteps(users) ==
    IF users = <<>> THEN <<>>
    ELSE UserSteps(Head(users)) \o ContactSteps(Tail(users))

ContactSection_NoGuard(users) == ItemSteps(Separator) \o ContactSteps(users)

ContactSection_Reversed(users) ==
    IF users # <<>>
    THEN ItemSteps(Separator)
         \o ContactSteps([i \in 1..Len(users) |-> users[Len(users) + 1 - i]])
    ELSE <<>>

\* if !recent_users.is_empty() { sep2; for user in &recent_users { ... } }
ContactSection(users) ==
    IF users # <<>>
    THEN ItemSteps(Separator) \o ContactSteps(users)
    ELSE <<>>

\* the steps of update_tray_menu after the tray lookup, in program order
Program(users) ==
    <<Step("new", Separator, FALSE)>>
    \o ItemSteps(OpenItem) \o ItemSteps(Separator) \o ItemSteps(NewContactItem)
    \o ContactSection(users)
    \o ItemSteps(Separator) \o ItemSteps(QuitItem)
    \o <<Step("set", Separator, FALSE)>>

\* Runs steps k.. on the local menu; step f (0: none) returns Err when reached.
RECURSIVE Exec(_, _, _, _)
Exec(steps, k, f, menu) ==
    IF k > Len(steps) THEN [kind |-> "ok", menu |-> menu]
    ELSE IF steps[k].panics THEN [kind |-> "panic", menu |-> menu]
    ELSE IF k = f THEN [kind |-> "err", menu |-> menu]
    ELSE Exec(steps, k + 1, f,
              IF steps[k].op = "append" THEN Append(menu, steps[k].item) ELSE menu)

\* the function body after the tray lookup: the outcome and the local menu
Build(users, f) == Exec(Program(users), 1, f, <<>>)

TrayMenuAfter_Partial(prev, r) == IF r.kind = "notray" THEN prev ELSE r.menu

\* tray.set_menu(Some(menu)) is reached only when every step succeeded
TrayMenuAfter(prev, r) == IF r.kind = "ok" THEN r.menu ELSE prev

\* the Result handed back to the caller ("panic": the call never returns)
Returned(r) ==
    CASE r.kind = "ok" -> "Ok"
      [] r.kind = "notray" -> "Tray not found"
      [] r.kind = "err" -> "error"
      [] r.kind = "panic" -> "panic"

Range(s) == {s[i] : i \in DOMAIN s}

\* the contact identifiers the UI layer supplies in lists
Users == {S_alice, S_chat_ \o <<"a", "l">>}

RECURSIVE ListsUpTo(_)
ListsUpTo(n) ==
    IF n = 0 THEN {<<>>}
    ELSE LET shorter == ListsUpTo(n - 1)
         IN shorter \cup {Append(l, u) : l \in {x \in shorter : Len(x) = n - 1}, u \in Users}

ContactLists == ListsUpTo(MaxContacts)

IdPrefixes == {<<>>, S_chat_, <<"x">> \o S_chat_}

\* the ids of the fixed entries
ReservedIds == {S_open, S_quit, S_new_contact}

\* identifiers: the ids of the fixed entries, and an optional prefix, then
\* ASCII letters, then two-byte letters
IdPool ==
    {S_alice} \cup ReservedIds \cup
    {x[1] \o Rep("a", x[2]) \o Rep(EAcute, x[3]) :
        x \in {y \in IdPrefixes \X (0..MaxIdLen) \X (0..MaxIdLen) :
                   y[2] + y[3] <= MaxIdLen}}

\* the one-identifier lists of IdPool
IdLists == {<<u>> : u \in IdPool}

\* Build, tabulated once for the lists of ContactLists and IdLists
BuildTable ==
    [l \in ContactLists \cup IdLists |-> [f \in 0..Len(Program(l)) |-> Build(l, f)]]

\* let tray = app.tray_by_id("main-tray").ok_or("Tray not found")?; then the body
Outcome(tray, users, f) ==
    IF ~tray THEN [kind |-> "notray", menu |-> <<>>]
    ELSE IF users \in DOMAIN BuildTable THEN BuildTable[users][f]
    ELSE Build(users, f)

\* The command runs on the main thread: a panic of the label slice unwinds
\* out of the event loop and ends the process; nothing is returned.
UpdateTrayMenu(users, f) ==
    /\ pc = "run"
    /\ LET r == Outcome(trayExists, users, f) IN
        /\ trayMenu' = TrayMenuAfter(trayMenu, r)
        /\ ret' = Returned(r)
        /\ recent_users' = IF r.kind = "ok" THEN users ELSE recent_users
        /\ pc' = IF r.kind = "panic" THEN "exited" ELSE pc
    /\ supplied' = supplied \cup Range(users)
    /\ UNCHANGED <<trayExists, menuHandler, trayHandler, closeHandler,
                   mainWindow, emitted, closeCount, unmatched, emitWindow,
                   failingCalls, host, position>>

----------------------------------------------------------------------------
(* The main window *)

Window(visible, minimized, focused) ==
    [exists |-> TRUE, visible |-> visible, minimized |-> minimized,
     focused |-> focused]

\* get_webview_window("main") is None
NoWindow ==
    [exists |-> FALSE, visible |-> FALSE, minimized |-> FALSE, focused |-> FALSE]

WindowCalls == {"unminimize", "show", "set_focus"}

\* a call that returns Err has done nothing to the window
Unminimize(w) ==
    IF "unminimize" \in failingCalls THEN w ELSE [w EXCEPT !.minimized = FALSE]
Show(w) ==
    IF "show" \in failingCalls THEN w ELSE [w EXCEPT !.visible = TRUE]
SetFocus(w) ==
    IF "set_focus" \in failingCalls THEN w ELSE [w EXCEPT !.focused = TRUE]
Hide(w) == [w EXCEPT !.visible = FALSE, !.focused = FALSE]

RevealAndFocus_NoUnminimize(w) == IF w.exists THEN SetFocus(Show(w)) ELSE w

\* if let Some(w) = get_webview_window("main") { unminimize; show; set_focus }
RevealAndFocus(w) == IF w.exists THEN SetFocus(Show(Unminimize(w))) ELSE w

----------------------------------------------------------------------------
(* The setup closure of run() *)

MarginRight == 10
MarginBottom == 50
LinuxX == 100
LinuxY == 100

Size(width, height) == [width |-> width, height |-> height]

PhysicalPosition(x, y) == [x |-> x, y |-> y]

BottomRight_SwappedMargins(monitor, size) ==
    PhysicalPosition(monitor.width - size.width - MarginBottom,
                     monitor.height - size.height - MarginRight)

\* let x = monitor.size().width as i32 - size.width as i32 - 10; y likewise
\* with 50. The sizes of Hosts are below 2^31, where `as i32` keeps the value
\* and the subtractions stay inside i32.
BottomRight(monitor, size) ==
    PhysicalPosition(monitor.width - size.width - MarginRight,
                     monitor.height - size.height - MarginBottom)

\* window.center(): the middle of the monitor
Centered(monitor, size) ==
    PhysicalPosition((monitor.width - size.width) \div 2,
                     (monitor.height - size.height) \div 2)

\* the cfg(target_os) block compiled into the build; none for another OS
Placement(h, p) ==
    CASE h.os = "windows" -> BottomRight(h.monitor, h.size)
      [] h.os = "macos" -> Centered(h.monitor, h.size)
      [] h.os = "linux" -> PhysicalPosition(LinuxX, LinuxY)
      [] OTHER -> p

TargetOs == {"windows", "macos", "linux", "freebsd"}

MonitorSizes == {Size(1920, 1080), Size(1280, 720)}

\* smaller than, as large as, and larger than a monitor
WindowSizes == {Size(400, 600), Size(1280, 720), Size(2000, 1200)}

Hosts == [os : TargetOs, monitor : MonitorSizes, size : WindowSizes]

\* the host of the specifications of the running application
DefaultHost == [os |-> "windows", monitor |-> Size(1920, 1080), size |-> Size(400, 600)]

InitialMenu_QuitFirst == <<QuitItem, Separator, NewContactItem, Separator, OpenItem>>

\* Menu::with_items(app, &[&open_item, &sep1, &new_contact_item, &sep2, &quit_item])
InitialMenu == <<OpenItem, Separator, NewContactItem, Separator, QuitItem>>

\* ok = FALSE: an unwrap/expect or a `?` of the closure fails and run() panics
Setup(ok) ==
    /\ pc = "setup"
    /\ IF ok
       THEN /\ pc' = "run"
            /\ mainWindow' = Show(mainWindow)
            /\ closeHandler' = TRUE
            /\ trayMenu' = IF trayExists THEN InitialMenu ELSE trayMenu
            /\ menuHandler' = trayExists
            /\ trayHandler' = trayExists
            /\ position' = Placement(host, position)
       ELSE /\ pc' = "exited"
            /\ UNCHANGED <<mainWindow, closeHandler, trayMenu, menuHandler,
                           trayHandler, position>>
    /\ UNCHANGED <<trayExists, emitted, ret, recent_users, supplied, closeCount,
                   unmatched, emitWindow, failingCalls, host>>

\* The closure statement by statement: the cfg(target_os) block, ...
SetupPlace(ok) ==
    /\ pc = "setup"
    /\ IF ok
       THEN pc' = "placed" /\ position' = Placement(host, position)
       ELSE pc' = "exited" /\ position' = position
    /\ UNCHANGED <<trayExists, trayMenu, menuHandler, trayHandler, closeHandler,
                   mainWindow, emitted, ret, recent_users, supplied, closeCount,
                   unmatched, emitWindow, failingCalls, host>>

\* ... window.show().expect("Failed to show window"), ...
SetupShow(ok) ==
    /\ pc = "placed"
    /\ IF ok
       THEN pc' = "shown" /\ mainWindow' = Show(mainWindow)
       ELSE pc' = "exited" /\ mainWindow' = mainWindow
    /\ UNCHANGED <<trayExists, trayMenu, menuHandler, trayHandler, closeHandler,
                   emitted, ret, recent_users, supplied, closeCount, unmatched,
                   emitWindow, failingCalls, host, position>>

\* ... and the close handler, the initial menu and the tray handlers
SetupWire(ok) ==
    /\ pc = "shown"
    /\ IF ok
       THEN /\ pc' = "run"
            /\ closeHandler' = TRUE
            /\ trayMenu' = IF trayExists THEN InitialMenu ELSE trayMenu
            /\ menuHandler' = trayExists
            /\ trayHandler' = trayExists
       ELSE /\ pc' = "exited"
            /\ closeHandler' = TRUE
            /\ UNCHANGED <<trayMenu, menuHandler, trayHandler>>
    /\ UNCHANGED <<trayExists, mainWindow, emitted, ret, recent_users, supplied,
                   closeCount, unmatched, emitWindow, failingCalls, host, position>>

----------------------------------------------------------------------------
(* The close-to-hide handler *)

OnCloseRequested_NoPrevent(w) == [prevent |-> FALSE, window |-> Hide(w)]

\* api.prevent_close(); window_clone.hide().ok();
OnCloseRequested(w) == [prevent |-> TRUE, window |-> Hide(w)]

\* WindowEvent::CloseRequested on the main window. A close nobody prevents
\* destroys the window, and the application exits with its last window.
CloseRequested ==
    /\ pc = "run"
    /\ mainWindow.exists
    /\ LET r == IF closeHandler THEN OnCloseRequested(mainWindow)
                ELSE [prevent |-> FALSE, window |-> mainWindow]
       IN /\ mainWindow' = IF r.prevent THEN r.window ELSE NoWindow
          /\ pc' = IF r.prevent THEN pc ELSE "exited"
    /\ UNCHANGED <<trayExists, trayMenu, menuHandler, trayHandler, closeHandler,
                   emitted, ret, recent_users, supplied, unmatched, emitWindow,
                   failingCalls, host, position>>

----------------------------------------------------------------------------
(* The tray event router *)

\* the arm of `match id` that a menu event id selects
Arm_LoosePrefix(id) ==
    IF id = S_open THEN "open"
    ELSE IF id = S_quit THEN "quit"
    ELSE IF id = S_new_contact THEN "new_contact"
    ELSE IF StartsWith(id, <<"c", "h", "a", "t">>) THEN "chat"
    ELSE "other"

Arm(id) ==
    IF id = S_open THEN "open"
    ELSE IF id = S_quit THEN "quit"
    ELSE IF id = S_new_contact THEN "new_contact"
    ELSE IF StartsWith(id, S_chat_) THEN "chat"
    ELSE "other"

ArmExits_AlsoChat(arm) == arm \in {"quit", "chat"}

\* app_handle.exit(0) is called in the "quit" arm only
ArmExits(arm) == arm = "quit"

RECURSIVE TrimStartMatches(_, _)
TrimStartMatches(s, p) ==
    IF StartsWith(s, p) THEN TrimStartMatches(SubSeq(s, Len(p) + 1, Len(s)), p)
    ELSE s

UserIdOf_TrimAll(id) == TrimStartMatches(id, S_chat_)

\* id.strip_prefix("chat_").unwrap_or("")
UserIdOf(id) ==
    IF StartsWith(id, S_chat_) THEN SubSeq(id, Len(S_chat_) + 1, Len(id))
    ELSE <<>>

\* format!("chat:{}", user_id)
ChatPayload(user_id) == S_chat_colon \o user_id

Emit_ChatAlsoNewContact(arm, id, log) ==
    CASE arm = "new_contact" -> Append(log, S_new_contact)
      [] arm = "chat" -> Append(Append(log, ChatPayload(UserIdOf(id))), S_new_contact)
      [] OTHER -> log

Emit_RawId(arm, id, log) ==
    CASE arm = "new_contact" -> Append(log, S_new_contact)
      [] arm = "chat" -> Append(log, id)
      [] OTHER -> log

\* app_handle.emit("tray-action", ...) of the arm
Emit(arm, id, log) ==
    CASE arm = "new_contact" -> Append(log, S_new_contact)
      [] arm = "chat" -> Append(log, ChatPayload(UserIdOf(id)))
      [] OTHER -> log

WindowAtEmit_EmitFirst(before, after) == before

\* app_handle.emit is the statement after the `if let Some(w)` block of its
\* arm: the event leaves with the window as that block left it
WindowAtEmit(before, after) == after

MenuEvent_EmitInsideIfLet(id) ==
    /\ pc = "run"
    /\ menuHandler
    /\ LET arm == Arm(id)
           w == IF arm \in {"open", "new_contact", "chat"}
                THEN RevealAndFocus(mainWindow)
                ELSE mainWindow
           sent == arm \in {"new_contact", "chat"} /\ w.exists /\ w.visible
       IN
        /\ mainWindow' = w
        /\ emitted' = IF sent THEN Emit(arm, id, emitted) ELSE emitted
        /\ emitWindow' = IF sent THEN WindowAtEmit(mainWindow, w) ELSE emitWindow
        /\ pc' = IF ArmExits(arm) THEN "exited" ELSE pc
        /\ unmatched' = (unmatched \/ arm = "other")
    /\ UNCHANGED <<trayExists, trayMenu, menuHandler, trayHandler, closeHandler,
                   ret, recent_users, supplied, closeCount, failingCalls, host, position>>

\* the tray.on_menu_event closure, for the event id
MenuEvent(id) ==
    /\ pc = "run"
    /\ menuHandler
    /\ LET arm == Arm(id)
           w == IF arm \in {"open", "new_contact", "chat"}
                THEN RevealAndFocus(mainWindow)
                ELSE mainWindow
       IN
        /\ mainWindow' = w
        /\ emitted' = Emit(arm, id, emitted)
        /\ emitWindow' = IF arm \in {"new_contact", "chat"}
                         THEN WindowAtEmit(mainWindow, w)
                         ELSE emitWindow
        /\ pc' = IF ArmExits(arm) THEN "exited" ELSE pc
        /\ unmatched' = (unmatched \/ arm = "other")
    /\ UNCHANGED <<trayExists, trayMenu, menuHandler, trayHandler, closeHandler,
                   ret, recent_users, supplied, closeCount, failingCalls, host, position>>

\* ids of menu events that no entry of the tray menu carries: the handler is
\* called for every menu event of the application
OtherIds == {<<>>, <<"c", "h", "a", "t">>, <<"Q", "u", "i", "t">>, <<"x">> \o S_chat_}

TrayIconEventKinds == {"Click", "DoubleClick", "Enter", "Move", "Leave"}

\* the tray.on_tray_icon_event closure
TrayIconEvent(kind) ==
    /\ pc = "run"
    /\ trayHandler
    /\ mainWindow' = IF kind = "Click" /\ mainWindow.exists
                     THEN Show(mainWindow)
                     ELSE mainWindow
    /\ UNCHANGED <<pc, trayExists, trayMenu, menuHandler, trayHandler,
                   closeHandler, emitted, ret, recent_users, supplied, closeCount,
                   unmatched, emitWindow,
                   failingCalls, host, position>>

----------------------------------------------------------------------------
(* What the user and the UI layer do to the main window from outside *)

WindowMinimized ==
    /\ pc = "run"
    /\ mainWindow.exists /\ mainWindow.visible /\ ~mainWindow.minimized
    /\ mainWindow' = [mainWindow EXCEPT !.minimized = TRUE, !.focused = FALSE]
    /\ UNCHANGED <<pc, trayExists, trayMenu, menuHandler, trayHandler,
                   closeHandler, emitted, ret, recent_users, supplied, closeCount,
                   unmatched, emitWindow,
                   failingCalls, host, position>>

WindowFocused(gained) ==
    /\ pc = "run"
    /\ mainWindow.exists /\ mainWindow.visible /\ ~mainWindow.minimized
    /\ mainWindow' = [mainWindow EXCEPT !.focused = gained]
    /\ UNCHANGED <<pc, trayExists, trayMenu, menuHandler, trayHandler,
                   closeHandler, emitted, ret, recent_users, supplied, closeCount,
                   unmatched, emitWindow,
                   failingCalls, host, position>>

\* the UI layer destroys the main window while another window keeps the
\* application alive
WindowDestroyed ==
    /\ pc = "run"
    /\ mainWindow.exists
    /\ mainWindow' = NoWindow
    /\ UNCHANGED <<pc, trayExists, trayMenu, menuHandler, trayHandler,
                   closeHandler, emitted, ret, recent_users, supplied, closeCount,
                   unmatched, emitWindow,
                   failingCalls, host, position>>

----------------------------------------------------------------------------
(* The specification of the running application *)

\* the ids of the entries of the installed menu that can be selected
SelectableIds(menu) == {menu[i].id : i \in {j \in DOMAIN menu : menu[j].kind = "item"}}

InitOn(hosts) ==
    /\ host \in hosts
    /\ position = PhysicalPosition(0, 0)
    /\ pc = "setup"
    /\ trayExists \in BOOLEAN
    /\ trayMenu = <<>>
    /\ menuHandler = FALSE
    /\ trayHandler = FALSE
    /\ closeHandler = FALSE
    /\ mainWindow = Window(FALSE, FALSE, FALSE)
    /\ emitted = <<>>
    /\ ret = "none"
    /\ recent_users = <<>>
    /\ supplied = {}
    /\ closeCount = 0
    /\ unmatched = FALSE
    /\ emitWindow = NoWindow
    /\ failingCalls = {}

Init == InitOn({DefaultHost})

Startup == \E ok \in BOOLEAN : Setup(ok)

Invoke == \E users \in ContactLists : \E f \in DOMAIN BuildTable[users] : UpdateTrayMenu(users, f)

\* a selection of an entry of the installed menu; the emitting arms are taken
\* while fewer than MaxEmitted events were emitted
Select ==
    \E id \in SelectableIds(trayMenu) :
        /\ Arm(id) \in {"new_contact", "chat"} => Len(emitted) < MaxEmitted
        /\ MenuEvent(id)

OtherMenu == \E id \in OtherIds : MenuEvent(id)

TrayIcon == \E kind \in TrayIconEventKinds : TrayIconEvent(kind)

Close == CloseRequested /\ closeCount' = closeCount

Focus == \E gained \in BOOLEAN : WindowFocused(gained)

\* Any number of update_tray_menu calls, each with a list of ContactLists and
\* any one of its steps failing, interleaved with every tray and window event.
Next ==
    \/ Startup
    \/ Invoke
    \/ Select
    \/ TrayIcon
    \/ Close
    \/ WindowMinimized
    \/ Focus
    \/ WindowDestroyed

Spec == Init /\ [][Next]_vars

----------------------------------------------------------------------------
(* The specification of one update_tray_menu call with any identifier *)

InvokeOnce ==
    /\ ret = "none"
    /\ \E users \in IdLists : \E f \in DOMAIN BuildTable[users] : UpdateTrayMenu(users, f)

CountedClose == closeCount < MaxCloses /\ CloseRequested /\ closeCount' = closeCount + 1

\* One update_tray_menu call with one identifier of IdPool and any one of its
\* steps failing, interleaved with every tray and window event; close requests counted.
NextIds ==
    \/ Startup
    \/ InvokeOnce
    \/ Select
    \/ TrayIcon
    \/ CountedClose
    \/ WindowMinimized
    \/ Focus
    \/ WindowDestroyed

SpecIds == Init /\ [][NextIds]_vars

----------------------------------------------------------------------------
(* The specification of the router with the menu events of the application *)

InvokeFirst == ret = "none" /\ Invoke

\* One update_tray_menu call with a list of ContactLists, then every tray and
\* window event and menu events whose id is no entry of the tray menu.
NextRouter ==
    \/ Startup
    \/ InvokeFirst
    \/ Select
    \/ OtherMenu
    \/ TrayIcon
    \/ Close
    \/ WindowMinimized
    \/ Focus
    \/ WindowDestroyed

SpecRouter == Init /\ [][NextRouter]_vars

----------------------------------------------------------------------------
(* The specification of the router while window calls fail *)

\* from now on exactly the calls of `calls` return Err
WindowSystem(calls) ==
    /\ pc = "run"
    /\ failingCalls' = calls
    /\ UNCHANGED <<pc, trayExists, trayMenu, menuHandler, trayHandler,
                   closeHandler, mainWindow, emitted, ret, recent_users, supplied,
                   closeCount, unmatched, emitWindow, host, position>>

Faults == \E calls \in SUBSET WindowCalls : WindowSystem(calls)

\* One update_tray_menu call with a list of ContactLists, then every tray and
\* window event while any of the window calls may return Err.
NextFaulty ==
    \/ Startup
    \/ InvokeFirst
    \/ Select
    \/ TrayIcon
    \/ Close
    \/ WindowMinimized
    \/ Focus
    \/ WindowDestroyed
    \/ Faults

SpecFaulty == Init /\ [][NextFaulty]_vars

----------------------------------------------------------------------------
(* The specification of the setup closure, statement by statement, on any host *)

InitSetup == InitOn(Hosts)

Place == \E ok \in BOOLEAN : SetupPlace(ok)

Reveal == \E ok \in BOOLEAN : SetupShow(ok)

Wire == \E ok \in BOOLEAN : SetupWire(ok)

NextSetup ==
    \/ Place
    \/ Reveal
    \/ Wire

SpecSetup == InitSetup /\ [][NextSetup]_vars

----------------------------------------------------------------------------
(* Properties *)

S_chat_alice == S_chat_colon \o S_alice

IsItem(e, id) == e.kind = "item" /\ e.id = id

ErrorStrings == {"error", "Tray not found"}

HasChatEvent == \E k \in DOMAIN emitted : StartsWith(emitted[k], S_chat_colon)

\* C1: after a successful update_tray_menu with a list of n identifiers the
\* installed menu is Open, separator, New Contact, then (only if n > 0) a
\* separator and one entry per list element in input order, duplicates kept,
\* the i-th keyed "chat_" + the i-th identifier, then a separator and Quit:
\* 3 fixed entries and n contact entries.
C1_MenuShape ==
    ret = "Ok" =>
        LET n == Len(recent_users)
            last == Len(trayMenu)
        IN /\ last = IF n > 0 THEN n + 6 ELSE 5
           /\ IsItem(trayMenu[1], S_open)
           /\ trayMenu[2].kind = "sep"
           /\ IsItem(trayMenu[3], S_new_contact)
           /\ n > 0 => trayMenu[4].kind = "sep"
           /\ \A i \in 1..n : IsItem(trayMenu[4 + i], S_chat_ \o recent_users[i])
           /\ trayMenu[last - 1].kind = "sep"
           /\ IsItem(trayMenu[last], S_quit)
           /\ Cardinality({i \in DOMAIN trayMenu : trayMenu[i].kind = "item"}) = 3 + n

\* a list with a duplicate was installed, both entries kept
C1_Witness ==
    /\ ret = "Ok"
    /\ recent_users = <<S_alice, S_alice>>
    /\ Len(trayMenu) = 8

\* C2: a successful update_tray_menu with an empty list installs exactly the
\* 5 entries Open, separator, New Contact, separator, Quit, whatever menu was
\* installed before.
C2_EmptyListMenu ==
    (ret = "Ok" /\ recent_users = <<>>) =>
        /\ Len(trayMenu) = 5
        /\ IsItem(trayMenu[1], S_open)
        /\ trayMenu[2].kind = "sep"
        /\ IsItem(trayMenu[3], S_new_contact)
        /\ trayMenu[4].kind = "sep"
        /\ IsItem(trayMenu[5], S_quit)

\* the empty list replaced a menu with contacts, one of which had been selected
C2_Witness ==
    /\ ret = "Ok"
    /\ recent_users = <<>>
    /\ Len(trayMenu) = 5
    /\ HasChatEvent

\* C3: the label of a contact entry is the identifier verbatim when it has at
\* most 12 characters, and its first 12 characters followed by the ellipsis
\* when it has more.
C3_LabelByCharacters ==
    ret = "Ok" =>
        \A i \in DOMAIN recent_users :
            trayMenu[4 + i].text =
                IF Len(recent_users[i]) <= 12 THEN recent_users[i]
                ELSE SubSeq(recent_users[i], 1, 12) \o <<Ellipsis>>

\* C4: the identifier the menu-event handler recovers from the action id that
\* update_tray_menu built for identifier u is u, also when u is empty, contains
\* "chat_" or begins with "chat_"; so is the one carried by an emitted event.
C4_RoundTrip ==
    ret = "Ok" =>
        \A i \in DOMAIN recent_users :
            /\ UserIdOf(trayMenu[4 + i].id) = recent_users[i]
            /\ \A k \in DOMAIN emitted :
                   StartsWith(emitted[k], S_chat_colon) =>
                       SubSeq(emitted[k], Len(S_chat_colon) + 1, Len(emitted[k]))
                           = recent_users[i]

\* the entry of an identifier that begins with "chat_" was selected
C4_Witness ==
    /\ ret = "Ok"
    /\ Len(recent_users) = 1
    /\ StartsWith(recent_users[1], S_chat_)
    /\ emitted = <<S_chat_colon \o recent_users[1]>>

\* C5: selecting "quit" terminates the process; selecting "open" or a
\* "chat_<id>" entry never does, whatever the state of the main window.
C5_OnlyQuitTerminates ==
    [][\A id \in SelectableIds(trayMenu) :
          MenuEvent(id) =>
              /\ id = S_quit => pc' = "exited"
              /\ (id = S_open \/ StartsWith(id, S_chat_)) => pc' = "run"]_vars

\* a contact entry was selected and the process went on, until "quit" (the
\* window still exists, so no close request and no panic ended the process)
C5_Witness ==
    /\ pc = "exited"
    /\ ret = "Ok"
    /\ mainWindow.exists
    /\ HasChatEvent

\* C6: selecting the entry keyed "chat_" + u emits exactly one "tray-action"
\* event, with payload "chat:" + u, and nothing else.
C6_OneChatEvent ==
    [][\A i \in DOMAIN recent_users :
          MenuEvent(S_chat_ \o recent_users[i]) =>
              emitted' = Append(emitted, S_chat_colon \o recent_users[i])]_vars

\* the entry of "alice" was selected: one event, "chat:alice"
C6_Witness ==
    /\ emitted = <<S_chat_alice>>
    /\ S_alice \in Range(recent_users)

\* C7: after startup every close request on the main window leaves the process
\* running and the window hidden and not destroyed, and the handler stays
\* registered for the next one.
C7_CloseHides ==
    [][CloseRequested =>
          /\ pc' = "run"
          /\ mainWindow'.exists
          /\ ~mainWindow'.visible
          /\ closeHandler']_vars

\* a second close request, after a tray menu selection, left the window hidden
C7_Witness ==
    /\ closeCount = 2
    /\ pc = "run"
    /\ mainWindow.exists
    /\ ~mainWindow.visible
    /\ emitted # <<>>

\* C8: when the main window is hidden by a close request, selecting "open"
\* makes it unminimized, visible and focused, after any number of repetitions.
C8_OpenRecovers ==
    [][(closeCount > 0 /\ mainWindow.exists /\ ~mainWindow.visible /\ MenuEvent(S_open)) =>
          /\ mainWindow'.visible
          /\ ~mainWindow'.minimized
          /\ mainWindow'.focused]_vars

\* the window is back after two close requests
C8_Witness ==
    /\ closeCount = 2
    /\ pc = "run"
    /\ mainWindow.exists
    /\ mainWindow.visible
    /\ mainWindow.focused
    /\ ~mainWindow.minimized

\* some step of an update_tray_menu call fails (f), or the tray is missing
FailedCall ==
    \E users \in ContactLists :
        /\ supplied' = supplied \cup Range(users)
        /\ \E f \in DOMAIN BuildTable[users] :
               (f # 0 \/ ~trayExists) /\ UpdateTrayMenu(users, f)

C10_PayloadShapes ==
    \A k \in DOMAIN emitted :
        \/ emitted[k] = S_new_contact
        \/ \E u \in supplied : emitted[k] = S_chat_colon \o u

\* "chat:alice" was emitted, and a later call replaced the menu that had alice
C10_Witness ==
    /\ emitted = <<S_chat_alice>>
    /\ ret = "Ok"
    /\ S_alice \notin Range(recent_users)
    /\ recent_users # <<>>

\* C11: a single click on the tray icon reveals and focuses the main window:
\* after the click the window, whenever it exists, is visible and has focus,
\* also when a close request had hidden it or it was minimized before.
C11_ClickRevealsAndFocuses ==
    [][(mainWindow.exists /\ TrayIconEvent("Click")) =>
          /\ mainWindow'.visible
          /\ mainWindow'.focused]_vars

\* C12: a call of update_tray_menu, whatever it returns, leaves the main
\* window, the running state of the process, the events emitted and the
\* registered handlers as they were; only the installed menu may change.
\* (A step that sets ret is a step of update_tray_menu.)
C12_OnlyTheMenuChanges ==
    [][ret' # ret =>
          UNCHANGED <<mainWindow, pc, emitted, menuHandler, trayHandler,
                      closeHandler>>]_vars

\* C13: a menu event whose id is none of "open", "quit", "new_contact" and
\* does not start with "chat_" is ignored: the window, the installed menu, the
\* running state and the events emitted are what they were.
C13_OtherIdsIgnored ==
    [][\A id \in OtherIds :
          (/\ id \notin {S_open, S_quit, S_new_contact}
           /\ ~StartsWith(id, S_chat_)
           /\ MenuEvent(id))
          => UNCHANGED <<mainWindow, trayMenu, pc, emitted>>]_vars

\* such an event was handled while a menu with a contact entry was installed
\* and the window was hidden, after an event had been emitted
C13_Witness ==
    /\ unmatched
    /\ pc = "run"
    /\ Len(trayMenu) = 7
    /\ emitted # <<>>
    /\ mainWindow.exists
    /\ ~mainWindow.visible

\* C14: selecting "new_contact" first reveals and focuses the main window and
\* only then emits exactly one "tray-action" event with the payload
\* "new_contact": the event never leaves before the window, when there is
\* one, is unminimized, shown and focused, and the process keeps running.
C14_NewContactRevealsThenEmits ==
    [][MenuEvent(S_new_contact) =>
          /\ emitted' = Append(emitted, S_new_contact)
          /\ pc' = "run"
          /\ mainWindow.exists =>
                /\ emitWindow'.visible
                /\ emitWindow'.focused
                /\ ~emitWindow'.minimized
                /\ mainWindow' = emitWindow']_vars

\* "new_contact" was selected while the window was hidden by a close request
C14_Witness ==
    /\ emitted = <<S_new_contact>>
    /\ emitWindow = Window(TRUE, FALSE, TRUE)
    /\ mainWindow = emitWindow
    /\ closeCount > 0
    /\ pc = "run"

\* C15: revealing the window is best-effort. When the main window is absent
\* or one of unminimize, show, set_focus returns Err, an "open",
\* "new_contact" or "chat_<id>" selection and a tray click raise no error and
\* do not end the process, and "new_contact" and "chat_<id>" still emit
\* their event.
C15_BestEffortReveal ==
    [][(~mainWindow.exists \/ failingCalls \cap {"unminimize", "show", "set_focus"} # {}) =>
          /\ TrayIconEvent("Click") => pc' = "run" /\ ret' = ret
          /\ \A id \in SelectableIds(trayMenu) \ {S_quit} :
                MenuEvent(id) =>
                   /\ pc' = "run"
                   /\ ret' = ret
                   /\ id = S_new_contact => emitted' = Append(emitted, S_new_contact)
                   /\ StartsWith(id, S_chat_) =>
                         \E i \in DOMAIN recent_users :
                            /\ id = S_chat_ \o recent_users[i]
                            /\ emitted' = Append(emitted, S_chat_colon \o recent_users[i])]_vars

\* the chat entry of alice was selected while show returned Err: the event
\* left although the window was still hidden
C15_Witness ==
    /\ emitted = <<S_chat_alice>>
    /\ emitWindow.exists
    /\ ~emitWindow.visible
    /\ "show" \in failingCalls
    /\ pc = "run"

\* C16 as stated: for an identifier u that itself starts with "chat_",
\* selecting its menu entry emits a payload whose identifier differs from u.
C16_PrefixedIdMisparsed ==
    [][\A i \in DOMAIN recent_users :
          (/\ StartsWith(recent_users[i], S_chat_)
           /\ MenuEvent(ChatId(recent_users[i])))
          => /\ emitted' # emitted
             /\ emitted'[Len(emitted')] # ChatPayload(recent_users[i])]_vars

\* C16, amended: for an identifier u that itself starts with "chat_" the
\* prefix is stripped once, so selecting its menu entry emits exactly the
\* payload "chat:" + u; the identifier carried is u itself.
C16_PrefixedIdRecovered ==
    [][\A i \in DOMAIN recent_users :
          (/\ StartsWith(recent_users[i], S_chat_)
           /\ MenuEvent(ChatId(recent_users[i])))
          => /\ Len(emitted') = Len(emitted) + 1
             /\ emitted'[Len(emitted')] = S_chat_colon \o recent_users[i]
             /\ UserIdOf(ChatId(recent_users[i])) = recent_users[i]]_vars

\* the entry of "chat_a" was selected and "chat:chat_a" was emitted
C16_Witness ==
    /\ recent_users = <<S_chat_ \o <<"a">>>>
    /\ trayMenu[5].id = S_chat_ \o S_chat_ \o <<"a">>
    /\ emitted = <<S_chat_colon \o S_chat_ \o <<"a">>>>
    /\ pc = "run"

\* C17: in a build for the OS with bottom-right placement the position
\* applied at startup is x = monitor width - outer width - 10 and
\* y = monitor height - outer height - 50, negative when the window is larger
\* than the monitor, and the window is visible only once it is applied.
C17_BottomRightBeforeShow ==
    host.os = "windows" =>
        LET applied ==
                /\ position.x = host.monitor.width - host.size.width - 10
                /\ position.y = host.monitor.height - host.size.height - 50
                /\ host.size.width > host.monitor.width => position.x < 0
                /\ host.size.height > host.monitor.height => position.y < 0
        IN /\ pc \in {"placed", "shown", "run"} => applied
           /\ mainWindow.visible => applied

\* a window of 2000 x 1200 on a monitor of 1280 x 720 is shown at (-730, -530)
C17_Witness ==
    /\ host.os = "windows"
    /\ host.size.width > host.monitor.width
    /\ mainWindow.visible
    /\ position = PhysicalPosition(-730, -530)

\* C18: the menu installed at startup has the same entries, ids, labels and
\* order as the menu update_tray_menu installs for an empty list: the first
\* successful call, made with an empty list, leaves the installed menu as
\* startup left it.
C18_StartupMenuIsEmptyListMenu ==
    [][(ret = "none" /\ ret' = "Ok" /\ recent_users' = <<>>) =>
          /\ trayMenu' = trayMenu
          /\ \A i \in DOMAIN trayMenu :
                /\ trayMenu'[i].kind = trayMenu[i].kind
                /\ trayMenu'[i].id = trayMenu[i].id
                /\ trayMenu'[i].text = trayMenu[i].text]_vars

\* update_tray_menu was only ever called with the empty list and returned Ok
C18_Witness ==
    /\ ret = "Ok"
    /\ recent_users = <<>>
    /\ supplied = {}
    /\ Len(trayMenu) = 5
    /\ pc = "run"

\* C19: no contact identifier takes over a fixed action: the id of a contact
\* entry, "chat_" + u, is none of "open", "quit", "new_contact", also for u
\* one of these or empty, so selecting the entry goes to the chat arm: it
\* emits a "chat:" event, never "new_contact", and the process keeps running.
C19_NoHijack ==
    [][\A i \in DOMAIN recent_users :
          (ret = "Ok" /\ MenuEvent(trayMenu[4 + i].id)) =>
              /\ trayMenu[4 + i].id \notin {S_open, S_quit, S_new_contact}
              /\ pc' = "run"
              /\ Len(emitted') = Len(emitted) + 1
              /\ emitted'[Len(emitted')] # S_new_contact
              /\ StartsWith(emitted'[Len(emitted')], S_chat_colon)]_vars

\* the entry of the identifier "quit" was selected: "chat:quit", still running
C19_Witness ==
    /\ recent_users = <<S_quit>>
    /\ emitted = <<S_chat_colon \o S_quit>>
    /\ pc = "run"

====
